---------------------------- MODULE Spec2Model ----------------------------
(***************************************************************************)
(* A model of the fileviewer server (src/src/fileviewer): the subscriber   *)
(* registry and its broadcast (server.py), the event stream generator of   *)
(* /api/events (server.py), the FolderWatcher state machine (watcher.py),  *)
(* project add/update/remove with their watchers (server.py, project.py),  *)
(* the directory scanner (server.py) and the markdown header parser        *)
(* (file_parser.py).                                                       *)
(*                                                                         *)
(* Each part has its own specification over its own variables; the other   *)
(* variables keep their initial values under it.                           *)
(***************************************************************************)
EXTENDS Integers, Sequences, FiniteSets, TLC

\* ------------------------------------------------------------------------
\* Bounds of the model and constants of the program
\* ------------------------------------------------------------------------

\* Number of client connections (event_stream generators) ever opened.
MaxClients == 2
\* Number of watcher threads that call broadcast_change.
NumWatchers == 2
\* queue.Queue(maxsize=10), server.py line 274.
MAXSIZE == 10
\* q.get(timeout=30), server.py line 280.
TIMEOUT == 30

\* Number of projects ever added, and of directories they can be at.
MaxProjects == 2
NumPaths == 2
\* Number of start/stop calls made on one FolderWatcher.
MaxOps == 6

\* Number of entries (files and folders) below the scanned root.
MaxNodes == 3
\* Number of distinct creation times of files.
NumTimes == 2

\* Number of lines of a markdown file.
MaxLines == 4
\* The deepest header the pattern of file_parser.py line 62 accepts.
MaxLevel == 6

\* Number of entries of the outermost object or array of a document, and of
\* an object or array inside it.
MaxEntries == 2
MaxInner == 1

Clients == 1..MaxClients
WThreads == 1..NumWatchers
Pids == 1..MaxProjects
Paths == 1..NumPaths

VARIABLES
    \* app.config['change_queues']: the list of registered queues, each named
    \* by the client whose generator created it.
    change_queues,
    \* qsize[c]: number of messages held by the queue of client c.
    qsize,
    \* cpc[c]: position of client c's event_stream generator.
    cpc,
    \* timer[c]: time units spent in the current q.get(timeout=30) call.
    timer,
    \* bc[w]: the broadcast_change call of watcher thread w: its position
    \* and its locals (the list iterator's index i, the loop variable q,
    \* dead_queues and the index j of the second loop). Two fields are
    \* history: owed, the clients registered ever since the call began that
    \* the first loop has not reached yet, and closed, the clients whose
    \* stream was closed when the call began.
    bc,
    \* History: silent[c] counts the time units client c has been waiting on
    \* an empty queue without being sent any frame.
    silent,
    \* History: hb[c] holds when the frame client c's generator is suspended
    \* on is a heartbeat that the clock's timeout produced.
    hb,
    \* History: the registry and the queue sizes when the broadcast call in
    \* progress began (kept by the specification of one call at a time).
    snap

bvars == <<change_queues, qsize, cpc, timer, bc, silent, hb, snap>>

VARIABLES
    \* pm.projects: projects[p] is the path of project p, 0 when p is not in
    \* the registry. Project ids are fresh tokens, named in the order of
    \* their creation.
    projects,
    \* The keys of app.config['watchers'].
    watchers,
    \* fw[p]: the FolderWatcher object made for project p.
    fw,
    \* addpc[p], rmpc[p]: positions of the request handlers add_project and
    \* remove_project working on project p.
    addpc,
    rmpc,
    \* History: the last ChangeEvent handed to broadcast_change (its project
    \* id, the path watched, and whether the project was in the registry).
    lastEvent

pvars == <<projects, watchers, fw, addpc, rmpc, lastEvent>>

VARIABLES
    \* One FolderWatcher object driven by arbitrary calls.
    fwo,
    \* History: the calls made on it so far, whether the last one raised,
    \* and the last call that changed the state of its observer.
    ops,
    raised,
    lastEff

fvars == <<fwo, ops, raised, lastEff>>

VARIABLES
    \* The directory tree under a project's path. Node 0 is the root; node
    \* n in 1..MaxNodes is an entry of the folder parent[n] (-1: no such
    \* entry), and a folder's entries are met by iterdir() in the order of
    \* their numbers. ent[n] gives the entry's name and kind, ctime[n] its
    \* creation time, and the folders in unreadable cannot be opened.
    parent,
    ent,
    ctime,
    unreadable,
    \* The answer to the last browse request.
    resp

svars == <<parent, ent, ctime, unreadable, resp>>

VARIABLES
    \* content.split('\n'): the lines of the markdown file being parsed.
    doc,
    \* Index of the line the loop of _parse_markdown handles next.
    pos,
    \* header_stack: the open headers, each node named by the index of its
    \* line.
    header_stack,
    \* nodes: the top-level headers, the list _parse_markdown returns.
    nodes,
    \* level[n] and children[n]: the fields of the node made for line n;
    \* level 0 when no node was made.
    level,
    children,
    \* mpc: position of the _parse_markdown call.
    mpc

mvars == <<doc, pos, header_stack, nodes, level, children, mpc>>

VARIABLES
    \* self.file_path of the FileParser, by its name.
    fname,
    \* The file's content, by what the decoder makes of it.
    content,
    \* The list parse() returned for a JSON or YAML file or for a file of
    \* another kind.
    tree,
    \* jpc: position of the parse() call.
    jpc

jvars == <<fname, content, tree, jpc>>

VARIABLES
    \* The event the handler of a watcher was last given.
    ev,
    \* History: whether on_any_event called the callback for it.
    called

hvars == <<ev, called>>

VARIABLES
    \* History: the last update_project request, the project and the path it
    \* named, whether the project was registered then, and how it ended.
    upd

uvars == <<upd>>

vars == <<bvars, pvars, fvars, svars, mvars, jvars, hvars, uvars>>

\* ------------------------------------------------------------------------
\* Lists (Python list semantics)
\* ------------------------------------------------------------------------

Range(s) == {s[k] : k \in 1..Len(s)}

\* x in list
Contains(list, x) == x \in Range(list)

\* Index of the first occurrence of x in list (x is in list).
FirstIndex(list, x) == CHOOSE k \in 1..Len(list) :
                          /\ list[k] = x
                          /\ \A m \in 1..(k-1) : list[m] # x

\* list.remove(x) for x in list: deletes the first occurrence.
ListRemove(list, x) ==
    LET k == FirstIndex(list, x)
    IN  [m \in 1..(Len(list) - 1) |-> IF m < k THEN list[m] ELSE list[m+1]]

\* ------------------------------------------------------------------------
\* Initial state of the broadcaster
\* ------------------------------------------------------------------------

IdleCall == [pc |-> "idle", i |-> 0, q |-> 0, dead |-> <<>>, j |-> 0,
             owed |-> {}, closed |-> {}]

NoSnap == [reg |-> <<>>, size |-> <<>>]

BInit ==
    /\ change_queues = <<>>
    /\ qsize = [c \in Clients |-> 0]
    /\ cpc = [c \in Clients |-> "new"]
    /\ timer = [c \in Clients |-> 0]
    /\ bc = [w \in WThreads |-> IdleCall]
    /\ silent = [c \in Clients |-> 0]
    /\ hb = [c \in Clients |-> FALSE]
    /\ snap = NoSnap

\* ------------------------------------------------------------------------
\* stream_events.event_stream (server.py lines 273-287), one generator per
\* client connection
\* ------------------------------------------------------------------------

\* Clients whose generator has finished (its finally block has run).
ClosedClients == {c \in Clients : cpc[c] \in {"closed", "closed_err"}}

\* The calls in progress no longer owe a visit to a queue that has left the
\* registry.
Unowe(calls, c) == [w \in WThreads |-> [calls[w] EXCEPT !.owed = @ \ {c}]]

\* Lines 274-275: q = queue.Queue(maxsize=10); change_queues.append(q).
\* Queues are fresh objects: they are named in the order of their creation.
Subscribe(c) ==
    /\ cpc[c] = "new"
    /\ \A d \in Clients : d < c => cpc[d] # "new"
    /\ change_queues' = Append(change_queues, c)
    /\ cpc' = [cpc EXCEPT ![c] = "waiting"]
    /\ UNCHANGED <<qsize, timer, bc, silent, hb>>

\* Lines 280-281: q.get returns a queued message, which is yielded as a
\* data frame.
GetMessage(c) ==
    /\ cpc[c] = "waiting"
    /\ qsize[c] > 0
    /\ qsize' = [qsize EXCEPT ![c] = @ - 1]
    /\ cpc' = [cpc EXCEPT ![c] = "yielded"]
    /\ timer' = [timer EXCEPT ![c] = 0]
    /\ silent' = [silent EXCEPT ![c] = 0]
    /\ hb' = [hb EXCEPT ![c] = FALSE]
    /\ UNCHANGED <<change_queues, bc>>

\* Lines 282-284 with time left out: q.get raises queue.Empty at some
\* moment at which the queue is empty, and a heartbeat is yielded.
Expire(c) ==
    /\ cpc[c] = "waiting"
    /\ qsize[c] = 0
    /\ cpc' = [cpc EXCEPT ![c] = "yielded"]
    /\ UNCHANGED <<change_queues, qsize, timer, bc, silent, hb>>

\* A q.get that gives up one time unit late.
TimedOutLate(t) == t > TIMEOUT

\* q.get(timeout=30) gives up once t time units have passed (line 280).
TimedOut(t) == t >= TIMEOUT

\* Lines 280-284 as one unit of time passes: a generator waiting on an empty
\* queue has waited one unit more, and when its timeout is reached q.get
\* raises queue.Empty and the heartbeat is yielded. A generator whose queue
\* holds a message is about to be handed it, and one suspended at a yield
\* is not waiting at all.
Tick ==
    LET idle(c) == cpc[c] = "waiting" /\ qsize[c] = 0
        beat(c) == idle(c) /\ TimedOut(timer[c] + 1)
    IN  /\ \E c \in Clients : idle(c)
        /\ cpc' = [c \in Clients |-> IF beat(c) THEN "yielded" ELSE cpc[c]]
        /\ hb' = [c \in Clients |-> IF beat(c) THEN TRUE ELSE hb[c]]
        /\ timer' = [c \in Clients |->
                        IF beat(c) THEN 0
                        ELSE IF idle(c) THEN timer[c] + 1 ELSE timer[c]]
        /\ silent' = [c \in Clients |->
                        IF beat(c) THEN 0
                        ELSE IF idle(c) THEN silent[c] + 1 ELSE silent[c]]
        /\ UNCHANGED <<change_queues, qsize, bc>>

\* The frame has been written to the client: the generator is resumed and
\* calls q.get(timeout=30) again (line 280).
Resume(c) ==
    /\ cpc[c] = "yielded"
    /\ cpc' = [cpc EXCEPT ![c] = "waiting"]
    /\ hb' = [hb EXCEPT ![c] = FALSE]
    /\ UNCHANGED <<change_queues, qsize, timer, bc, silent>>

\* A generator whose cleanup forgets its queue in the registry.
CloseWithoutRemove(c) ==
    /\ cpc[c] = "yielded"
    /\ cpc' = [cpc EXCEPT ![c] = "closed"]
    /\ hb' = [hb EXCEPT ![c] = FALSE]
    /\ UNCHANGED <<change_queues, qsize, timer, bc, silent>>

\* The client disconnects: the generator, suspended at a yield, is closed
\* and its finally block runs. Line 286: if q in change_queues.
CloseCheck(c) ==
    /\ cpc[c] = "yielded"
    /\ cpc' = [cpc EXCEPT ![c] =
                  IF Contains(change_queues, c) THEN "closing" ELSE "closed"]
    /\ hb' = [hb EXCEPT ![c] = FALSE]
    /\ UNCHANGED <<change_queues, qsize, timer, bc, silent>>

\* Line 287: change_queues.remove(q), which raises ValueError when q is no
\* longer in the list; the generator is finished either way.
CloseRemove(c) ==
    /\ cpc[c] = "closing"
    /\ IF Contains(change_queues, c)
       THEN /\ change_queues' = ListRemove(change_queues, c)
            /\ cpc' = [cpc EXCEPT ![c] = "closed"]
            /\ bc' = Unowe(bc, c)
       ELSE /\ cpc' = [cpc EXCEPT ![c] = "closed_err"]
            /\ UNCHANGED <<change_queues, bc>>
    /\ UNCHANGED <<qsize, timer, silent, hb>>

\* ------------------------------------------------------------------------
\* broadcast_change (server.py lines 37-55), one call per watcher thread at
\* a time; a step is what the thread does without being preempted
\* ------------------------------------------------------------------------

\* A put_nowait whose bound is off by one.
PutNowaitOffByOne(sz) ==
    IF sz <= MAXSIZE THEN [ok |-> TRUE, size |-> sz + 1]
                     ELSE [ok |-> FALSE, size |-> sz]

\* q.put_nowait(message) on a queue holding sz messages: the new size, or
\* queue.Full (ok = FALSE) when the queue holds maxsize messages.
PutNowait(sz) ==
    IF sz < MAXSIZE THEN [ok |-> TRUE, size |-> sz + 1]
                    ELSE [ok |-> FALSE, size |-> sz]

\* Lines 39-46: the message is built and dead_queues = [].
BeginBroadcast(w) ==
    /\ bc[w].pc = "idle"
    /\ bc' = [bc EXCEPT ![w] = [IdleCall EXCEPT !.pc = "iter",
                                                !.owed = Range(change_queues),
                                                !.closed = ClosedClients]]
    /\ UNCHANGED <<change_queues, qsize, cpc, timer, silent, hb>>

\* Line 47: for q in change_queues -- the list iterator holds an index into
\* the list and stops when the index reaches the list's current length.
IterNext(w) ==
    /\ bc[w].pc = "iter"
    /\ IF bc[w].i < Len(change_queues)
       THEN bc' = [bc EXCEPT ![w].q = change_queues[bc[w].i + 1],
                             ![w].i = @ + 1,
                             ![w].pc = "put",
                             ![w].owed = @ \ {change_queues[bc[w].i + 1]}]
       ELSE bc' = [bc EXCEPT ![w].q = 0, ![w].pc = "remove", ![w].j = 1]
    /\ UNCHANGED <<change_queues, qsize, cpc, timer, silent, hb>>

\* Lines 48-51: q.put_nowait(message); on queue.Full, dead_queues.append(q).
PutStep(w) ==
    /\ bc[w].pc = "put"
    /\ LET r == PutNowait(qsize[bc[w].q])
       IN  /\ qsize' = [qsize EXCEPT ![bc[w].q] = r.size]
           /\ bc' = [bc EXCEPT ![w].pc = "iter",
                               ![w].dead = IF r.ok THEN @ ELSE Append(@, bc[w].q)]
    /\ UNCHANGED <<change_queues, cpc, timer, silent, hb>>

\* Lines 54-55: for q in dead_queues: change_queues.remove(q), which raises
\* ValueError when q is not in the list; after the last one the call returns.
RemoveDead(w) ==
    /\ bc[w].pc = "remove"
    /\ IF bc[w].j > Len(bc[w].dead)
       THEN /\ bc' = [bc EXCEPT ![w].pc = "done"]
            /\ change_queues' = change_queues
       ELSE IF Contains(change_queues, bc[w].dead[bc[w].j])
       THEN /\ change_queues' = ListRemove(change_queues, bc[w].dead[bc[w].j])
            /\ bc' = [Unowe(bc, bc[w].dead[bc[w].j]) EXCEPT ![w].j = @ + 1]
       ELSE /\ bc' = [bc EXCEPT ![w].pc = "raised"]
            /\ change_queues' = change_queues
    /\ UNCHANGED <<qsize, cpc, timer, silent, hb>>

\* The call has returned to the watcher thread, which is ready for the next
\* filesystem event.
Return(w) ==
    /\ bc[w].pc = "done"
    /\ bc' = [bc EXCEPT ![w] = IdleCall]
    /\ UNCHANGED <<change_queues, qsize, cpc, timer, silent, hb>>

\* ------------------------------------------------------------------------
\* FolderWatcher (watcher.py lines 39-81). Its observer is a thread of the
\* watchdog library: "new" until started, "alive" while it runs, "stopped"
\* once stopped and joined; a thread can be started once only.
\* ------------------------------------------------------------------------

\* __init__, lines 42-53.
FWNew(path) == [path |-> path, running |-> FALSE, obs |-> "new", scheduled |-> 0]

\* start(), lines 55-65: observer.start() raises RuntimeError on an observer
\* that was started before, and then line 64 is not reached.
FWStart(f) ==
    IF ~f.running
    THEN IF f.obs = "new"
         THEN [f EXCEPT !.scheduled = @ + 1, !.obs = "alive", !.running = TRUE]
         ELSE [f EXCEPT !.scheduled = @ + 1]
    ELSE f

FWStartRaises(f) == ~f.running /\ f.obs # "new"

\* A stop() that leaves the running flag set.
FWStopKeepsFlag(f) ==
    IF f.running THEN [f EXCEPT !.obs = "stopped"] ELSE f

\* stop(), lines 67-73: observer.stop() and observer.join().
FWStop(f) ==
    IF f.running THEN [f EXCEPT !.obs = "stopped", !.running = FALSE] ELSE f

\* is_running(), lines 75-81.
IsRunning(f) == f.running

FInit ==
    /\ fwo = FWNew(1)
    /\ ops = <<>>
    /\ raised = FALSE
    /\ lastEff = "none"

\* The call that changed the observer's state, if this one did.
Effective(before, after, op, last) ==
    IF before.obs # after.obs THEN op ELSE last

CallStart ==
    /\ Len(ops) < MaxOps
    /\ fwo' = FWStart(fwo)
    /\ raised' = FWStartRaises(fwo)
    /\ ops' = Append(ops, "start")
    /\ lastEff' = Effective(fwo, fwo', "start", lastEff)

CallStop ==
    /\ Len(ops) < MaxOps
    /\ fwo' = FWStop(fwo)
    /\ raised' = FALSE
    /\ ops' = Append(ops, "stop")
    /\ lastEff' = Effective(fwo, fwo', "stop", lastEff)

WatcherNext ==
    \/ CallStart /\ UNCHANGED <<bvars, pvars, svars, mvars, jvars, hvars, uvars>>
    \/ CallStop /\ UNCHANGED <<bvars, pvars, svars, mvars, jvars, hvars, uvars>>

\* ------------------------------------------------------------------------
\* add_project and remove_project (server.py lines 87-150) with
\* ProjectManager (project.py), each request handled by its own thread, and
\* the observer threads of the watchers
\* ------------------------------------------------------------------------

NoEvent == [pid |-> 0, path |-> 0, registered |-> TRUE]

PInit ==
    /\ projects = [p \in Pids |-> 0]
    /\ watchers = {}
    /\ fw = [p \in Pids |-> FWNew(0)]
    /\ addpc = [p \in Pids |-> "none"]
    /\ rmpc = [p \in Pids |-> "idle"]
    /\ lastEvent = NoEvent

\* ProjectManager.add_project, project.py lines 166-169.
PMAdd(reg, p, path) == [reg EXCEPT ![p] = path]

\* ProjectManager.remove_project, project.py lines 213-217.
PMRemove(reg, p) == [reg EXCEPT ![p] = 0]

\* server.py lines 91-105: the path is a directory, and the project is put
\* in the registry under a fresh id.
AddRegister(p, path) ==
    /\ addpc[p] = "none"
    /\ \A r \in Pids : r < p => addpc[r] # "none"
    /\ projects' = PMAdd(projects, p, path)
    /\ addpc' = [addpc EXCEPT ![p] = "registered"]
    /\ UNCHANGED <<watchers, fw, rmpc, lastEvent>>

\* Lines 108-112: the watcher is made for the path and put in the map.
AddStore(p) ==
    /\ addpc[p] = "registered"
    /\ fw' = [fw EXCEPT ![p] = FWNew(projects[p])]
    /\ watchers' = watchers \cup {p}
    /\ addpc' = [addpc EXCEPT ![p] = "stored"]
    /\ UNCHANGED <<projects, rmpc, lastEvent>>

\* Line 113: watcher.start().
AddStart(p) ==
    /\ addpc[p] = "stored"
    /\ fw' = [fw EXCEPT ![p] = FWStart(@)]
    /\ addpc' = [addpc EXCEPT ![p] = "done"]
    /\ UNCHANGED <<projects, watchers, rmpc, lastEvent>>

\* Lines 140-142: pm.remove_project(project_id) takes the project out of
\* the registry; a project that is not there is answered 404.
RemoveRegistry(p) ==
    /\ rmpc[p] = "idle"
    /\ projects[p] # 0
    /\ projects' = PMRemove(projects, p)
    /\ rmpc' = [rmpc EXCEPT ![p] = "removed"]
    /\ UNCHANGED <<watchers, fw, addpc, lastEvent>>

\* Lines 144-145: if project_id in watchers: watchers[project_id].stop().
RemoveStop(p) ==
    /\ rmpc[p] = "removed"
    /\ IF p \in watchers
       THEN /\ fw' = [fw EXCEPT ![p] = FWStop(@)]
            /\ rmpc' = [rmpc EXCEPT ![p] = "stopped"]
       ELSE /\ fw' = fw
            /\ rmpc' = [rmpc EXCEPT ![p] = "idle"]
    /\ UNCHANGED <<projects, watchers, addpc, lastEvent>>

\* Lines 146-148: del watchers[project_id], and the request is answered.
RemoveDel(p) ==
    /\ rmpc[p] = "stopped"
    /\ watchers' = watchers \ {p}
    /\ rmpc' = [rmpc EXCEPT ![p] = "idle"]
    /\ UNCHANGED <<projects, fw, addpc, lastEvent>>

\* The observer thread of project p's watcher sees a change of a supported
\* file and calls on_change, which calls broadcast_change with the id of
\* the project (server.py lines 108-109).
WatcherEvent(p) ==
    /\ fw[p].obs = "alive"
    /\ lastEvent' = [pid |-> p, path |-> fw[p].path,
                     registered |-> projects[p] # 0]
    /\ UNCHANGED <<projects, watchers, fw, addpc, rmpc>>

ProjNext ==
    \/ \E p \in Pids, path \in Paths :
          AddRegister(p, path) /\ UNCHANGED <<bvars, fvars, svars, mvars, jvars, hvars, uvars>>
    \/ \E p \in Pids : AddStore(p) /\ UNCHANGED <<bvars, fvars, svars, mvars, jvars, hvars, uvars>>
    \/ \E p \in Pids : AddStart(p) /\ UNCHANGED <<bvars, fvars, svars, mvars, jvars, hvars, uvars>>
    \/ \E p \in Pids : RemoveRegistry(p) /\ UNCHANGED <<bvars, fvars, svars, mvars, jvars, hvars, uvars>>
    \/ \E p \in Pids : RemoveStop(p) /\ UNCHANGED <<bvars, fvars, svars, mvars, jvars, hvars, uvars>>
    \/ \E p \in Pids : RemoveDel(p) /\ UNCHANGED <<bvars, fvars, svars, mvars, jvars, hvars, uvars>>
    \/ \E p \in Pids : WatcherEvent(p) /\ UNCHANGED <<bvars, fvars, svars, mvars, jvars, hvars, uvars>>

\* ------------------------------------------------------------------------
\* update_project (server.py lines 118-134, project.py lines 171-202), the
\* requests handled one at a time
\* ------------------------------------------------------------------------

\* The names server.py binds at module level: its imports (lines 3-15), app
\* and its functions.
ServerGlobals ==
    { "os", "socket", "json", "queue", "Path", "markdown", "Flask",
      "jsonify", "send_from_directory", "Response", "stream_with_context",
      "CORS", "FolderWatcher", "FileParser", "ProjectManager", "app",
      "find_free_port", "broadcast_change", "index", "get_projects",
      "add_project", "update_project", "remove_project",
      "browse_all_folders", "browse_project", "stream_events",
      "get_file_tree", "main" }

NoUpdate == [pid |-> 0, path |-> 0, known |-> FALSE, status |-> "none"]

UIdle == upd = NoUpdate

\* ProjectManager.update_project with a path, project.py lines 189-202.
PMUpdate(reg, p, path) == [reg EXCEPT ![p] = path]

\* No request is being handled.
Quiet ==
    \A p \in Pids : addpc[p] \in {"none", "done"} /\ rmpc[p] = "idle"

\* PUT /api/projects/<id> with a path. Line 121 reads the global name
\* request, which raises NameError when the module does not bind it; lines
\* 122-134 otherwise.
UpdateRequest(p, path) ==
    /\ Quiet
    /\ addpc[p] # "none"
    /\ IF "request" \notin ServerGlobals
       THEN /\ upd' = [pid |-> p, path |-> path, known |-> projects[p] # 0,
                       status |-> "NameError"]
            /\ projects' = projects
       ELSE IF projects[p] = 0
       THEN /\ upd' = [pid |-> p, path |-> path, known |-> FALSE,
                       status |-> "not_found"]
            /\ projects' = projects
       ELSE /\ upd' = [pid |-> p, path |-> path, known |-> TRUE,
                       status |-> "ok"]
            /\ projects' = PMUpdate(projects, p, path)
    /\ UNCHANGED <<watchers, fw, addpc, rmpc, lastEvent>>

UpdateNext ==
    \/ \E p \in Pids, path \in Paths :
          Quiet /\ AddRegister(p, path) /\ UNCHANGED <<bvars, fvars, svars, mvars, jvars, hvars, uvars>>
    \/ \E p \in Pids : AddStore(p) /\ UNCHANGED <<bvars, fvars, svars, mvars, jvars, hvars, uvars>>
    \/ \E p \in Pids : AddStart(p) /\ UNCHANGED <<bvars, fvars, svars, mvars, jvars, hvars, uvars>>
    \/ \E p \in Pids : Quiet /\ RemoveRegistry(p) /\ UNCHANGED <<bvars, fvars, svars, mvars, jvars, hvars, uvars>>
    \/ \E p \in Pids : RemoveStop(p) /\ UNCHANGED <<bvars, fvars, svars, mvars, jvars, hvars, uvars>>
    \/ \E p \in Pids : RemoveDel(p) /\ UNCHANGED <<bvars, fvars, svars, mvars, jvars, hvars, uvars>>
    \/ \E p \in Pids : WatcherEvent(p) /\ UNCHANGED <<bvars, fvars, svars, mvars, jvars, hvars, uvars>>
    \/ \E p \in Pids, path \in Paths :
          UpdateRequest(p, path) /\ UNCHANGED <<bvars, fvars, svars, mvars, jvars, hvars>>

\* ------------------------------------------------------------------------
\* Names: a name is the sequence of its characters
\* ------------------------------------------------------------------------

\* The characters of the names used, in the order of their code points.
Alphabet == <<".", "A", "B", "D", "M", "_", "a", "b", "c", "d", "e", "g",
              "h", "i", "l", "m", "n", "o", "p", "s", "t", "u", "v", "x",
              "y">>

Ord(ch) == CHOOSE k \in 1..Len(Alphabet) : Alphabet[k] = ch

\* str.lower() on one character.
LowerChar(ch) ==
    CASE ch = "A" -> "a"
      [] ch = "B" -> "b"
      [] ch = "D" -> "d"
      [] ch = "M" -> "m"
      [] OTHER -> ch

\* str.lower()
Lower(name) == [k \in 1..Len(name) |-> LowerChar(name[k])]

\* a < b for strings: the first differing character decides, a proper
\* prefix comes first.
RECURSIVE StrLess(_, _)
StrLess(a, b) ==
    IF b = <<>> THEN FALSE
    ELSE IF a = <<>> THEN TRUE
    ELSE IF Head(a) # Head(b) THEN Ord(Head(a)) < Ord(Head(b))
    ELSE StrLess(Tail(a), Tail(b))

\* name.startswith('.')
StartsWithDot(name) == Len(name) > 0 /\ name[1] = "."

\* Path.suffix: the name from its last dot on, when that dot is neither the
\* first nor the last character; else the empty string.
Suffix(name) ==
    LET dots == {k \in 1..Len(name) : name[k] = "."}
        last == CHOOSE k \in dots : \A m \in dots : m <= k
    IN  IF dots = {} THEN <<>>
        ELSE IF last = 1 \/ last = Len(name) THEN <<>>
        ELSE SubSeq(name, last, Len(name))

\* server.py line 167.
excluded_folders ==
    { <<"n","o","d","e","_","m","o","d","u","l","e","s">>,
      <<".","g","i","t">>,
      <<"_","_","p","y","c","a","c","h","e","_","_">>,
      <<".","v","e","n","v">>,
      <<"v","e","n","v">>,
      <<"d","i","s","t">>,
      <<"b","u","i","l","d">> }

\* server.py lines 184 and 244.
SupportedSuffixes ==
    { <<".","m","d">>, <<".","j","s","o","n">>, <<".","y","m","l">>,
      <<".","y","a","m","l">>, <<".","m","m","d">> }

\* ------------------------------------------------------------------------
\* The directory trees scanned
\* ------------------------------------------------------------------------

Nodes == 1..MaxNodes
Times == 1..NumTimes

\* The entries a folder may hold.
Catalogue ==
    { [name |-> <<"D","o","c","s">>, kind |-> "dir"],
      [name |-> <<"a","p","p","s">>, kind |-> "dir"],
      [name |-> <<"n","o","d","e","_","m","o","d","u","l","e","s">>, kind |-> "dir"],
      [name |-> <<".","g","i","t">>, kind |-> "dir"],
      [name |-> <<".","c","a","c","h","e">>, kind |-> "dir"],
      [name |-> <<"a",".","m","d">>, kind |-> "file"],
      [name |-> <<"B",".","M","D">>, kind |-> "file"],
      [name |-> <<"b",".","t","x","t">>, kind |-> "file"],
      [name |-> <<"v","e","n","v">>, kind |-> "file"] }

NoEntry == [name |-> <<>>, kind |-> "none"]

Exists(n) == IF n = 0 THEN TRUE ELSE parent[n] >= 0
IsDir(n) == IF n = 0 THEN TRUE ELSE parent[n] >= 0 /\ ent[n].kind = "dir"
IsFile(n) == IF n = 0 THEN FALSE ELSE parent[n] >= 0 /\ ent[n].kind = "file"
Dirs == {n \in 0..MaxNodes : IsDir(n)}

\* The entries of folder d, in the order iterdir() yields them.
RECURSIVE EntriesFrom(_, _)
EntriesFrom(d, n) ==
    IF n > MaxNodes THEN <<>>
    ELSE IF parent[n] = d THEN <<n>> \o EntriesFrom(d, n + 1)
    ELSE EntriesFrom(d, n + 1)

Entries(d) == EntriesFrom(d, 1)

NoResp == [mode |-> "none", target |-> 0, status |-> "none",
           cache |-> <<>>, items |-> <<>>]

SInit ==
    /\ parent \in [Nodes -> -1..(MaxNodes - 1)]
    /\ ent \in [Nodes -> Catalogue \cup {NoEntry}]
    /\ ctime \in [Nodes -> 0..NumTimes]
    /\ unreadable \in SUBSET (0..MaxNodes)
    /\ \A n \in Nodes :
          /\ parent[n] < n
          /\ (n > 1 /\ parent[n] >= 0) => parent[n - 1] >= 0
          /\ (parent[n] = -1) <=> (ent[n] = NoEntry)
          /\ parent[n] >= 0 => IsDir(parent[n])
          /\ (ctime[n] > 0) <=> IsFile(n)
          /\ \A m \in Nodes :
                (m # n /\ parent[m] >= 0 /\ parent[m] = parent[n])
                    => ent[m].name # ent[n].name
    /\ unreadable \subseteq Dirs
    /\ resp = NoResp

\* The tree with a fixed shape, for the specifications that do not scan.
SIdle ==
    /\ parent = [n \in Nodes |-> -1]
    /\ ent = [n \in Nodes |-> NoEntry]
    /\ ctime = [n \in Nodes |-> 0]
    /\ unreadable = {}
    /\ resp = NoResp

\* ------------------------------------------------------------------------
\* The directory scanner: browse_all_folders (server.py lines 153-219) and
\* browse_project (lines 222-267)
\* ------------------------------------------------------------------------

\* Lines 186-193 and 246-253.
FileItem(n) == [node |-> n, name |-> ent[n].name, type |-> "file",
                extension |-> Lower(Suffix(ent[n].name)),
                created |-> ctime[n]]

\* Lines 195-199 and 255-259.
FolderItem(n) == [node |-> n, name |-> ent[n].name, type |-> "folder",
                  extension |-> <<>>, created |-> 0]

\* Lines 184 and 244.
Supported(n) == Lower(Suffix(ent[n].name)) \in SupportedSuffixes

\* Lines 206 and 262: key=lambda x: x['name'].lower()
FolderLess(a, b) == StrLess(Lower(a.name), Lower(b.name))

\* A variant of the files' order: oldest first.
FileLessAscending(a, b) == a.created < b.created

\* Lines 207 and 263: key=lambda x: x['created'], reverse=True
FileLess(a, b) == a.created > b.created

\* The order of one of the two sorts.
ItemLess(type, a, b) ==
    IF type = "folder" THEN FolderLess(a, b) ELSE FileLess(a, b)

\* sorted(): a stable sort, x going behind the elements it is not less than.
RECURSIVE InsertSorted(_, _, _)
InsertSorted(x, sorted, type) ==
    IF sorted = <<>> THEN <<x>>
    ELSE IF ItemLess(type, x, Head(sorted)) THEN <<x>> \o sorted
    ELSE <<Head(sorted)>> \o InsertSorted(x, Tail(sorted), type)

RECURSIVE SortBy(_, _)
SortBy(seq, type) ==
    IF seq = <<>> THEN <<>>
    ELSE InsertSorted(seq[Len(seq)],
                      SortBy(SubSeq(seq, 1, Len(seq) - 1), type), type)

\* Lines 205-209 and 261-265: folders + files.
SortListing(items) ==
    SortBy(SelectSeq(items, LAMBDA i : i.type = "folder"), "folder")
    \o SortBy(SelectSeq(items, LAMBDA i : i.type = "file"), "file")

\* scan_folder, lines 172-209: ScanLoop is the loop over iterdir() from the
\* entries es on, with the items gathered and the cache so far; ScanFolder
\* is one call. A folder that cannot be opened raises in iterdir(), which
\* the except clause of line 202 catches, and lines 206-209 run all the same.
RECURSIVE ScanLoop(_, _, _)
RECURSIVE ScanFolder(_, _)

ScanLoop(es, items, cache) ==
    IF es = <<>> THEN [items |-> items, cache |-> cache]
    ELSE LET n == Head(es)
         IN  IF IsDir(n) /\ ent[n].name \in excluded_folders
             THEN ScanLoop(Tail(es), items, cache)
             ELSE IF IsFile(n)
             THEN IF Supported(n)
                  THEN ScanLoop(Tail(es), Append(items, FileItem(n)), cache)
                  ELSE ScanLoop(Tail(es), items, cache)
             ELSE IF IsDir(n) /\ ~StartsWithDot(ent[n].name)
             THEN ScanLoop(Tail(es), Append(items, FolderItem(n)),
                           ScanFolder(n, cache))
             ELSE ScanLoop(Tail(es), items, cache)

ScanFolder(d, cache) ==
    LET r == IF d \in unreadable
             THEN [items |-> <<>>, cache |-> cache]
             ELSE ScanLoop(Entries(d), <<>>, cache)
    IN  (d :> SortListing(r.items)) @@ r.cache

\* browse_project's loop, lines 241-259.
RECURSIVE ListLoop(_, _)
ListLoop(es, items) ==
    IF es = <<>> THEN items
    ELSE LET n == Head(es)
         IN  IF IsFile(n)
             THEN IF Supported(n)
                  THEN ListLoop(Tail(es), Append(items, FileItem(n)))
                  ELSE ListLoop(Tail(es), items)
             ELSE IF IsDir(n) /\ ~StartsWithDot(ent[n].name)
             THEN ListLoop(Tail(es), Append(items, FolderItem(n)))
             ELSE ListLoop(Tail(es), items)

\* GET /api/projects/<id>/browse-all, lines 166-219. The cache is keyed by
\* the folder (its node) in place of the folder's path.
BrowseAll ==
    /\ LET cache == ScanFolder(0, <<>>)
       IN  resp' = [mode |-> "all", target |-> 0, status |-> "ok",
                    cache |-> cache, items |-> cache[0]]
    /\ UNCHANGED <<parent, ent, ctime, unreadable>>

\* GET /api/projects/<id>/browse/<subpath>, lines 236-267, for the subpath
\* of node t: iterdir() raises when the path is no folder or cannot be
\* opened, and the handler answers with the error.
Browse(t) ==
    /\ IF IsDir(t) /\ t \notin unreadable
       THEN resp' = [mode |-> "list", target |-> t, status |-> "ok",
                     cache |-> <<>>,
                     items |-> SortListing(ListLoop(Entries(t), <<>>))]
       ELSE resp' = [mode |-> "list", target |-> t, status |-> "error",
                     cache |-> <<>>, items |-> <<>>]
    /\ UNCHANGED <<parent, ent, ctime, unreadable>>

ScanNext ==
    \/ BrowseAll /\ UNCHANGED <<bvars, pvars, fvars, mvars, jvars, hvars, uvars>>
    \/ \E t \in 0..MaxNodes : Browse(t) /\ UNCHANGED <<bvars, pvars, fvars, mvars, jvars, hvars, uvars>>

\* ------------------------------------------------------------------------
\* The markdown parser: FileParser._parse_markdown (file_parser.py lines
\* 50-87)
\* ------------------------------------------------------------------------

LineIds == 1..MaxLines

\* A line of the file, by what the pattern of line 62 looks at: the number
\* of '#' the line starts with, whether white space follows them, and
\* whether anything but white space follows that.
LineKinds ==
    { [hashes |-> h, space |-> TRUE, text |-> TRUE] : h \in 1..(MaxLevel + 1) }
    \cup { [hashes |-> 0, space |-> FALSE, text |-> TRUE],
           [hashes |-> 0, space |-> FALSE, text |-> FALSE],
           [hashes |-> 2, space |-> FALSE, text |-> TRUE],
           [hashes |-> 3, space |-> TRUE, text |-> FALSE] }

\* Line 62-64: re.match(r'^(#{1,6})\s+(.+)$', line.strip()) and the length
\* of its first group; 0 when the line does not match.
HeaderLevel(line) ==
    IF line.hashes >= 1 /\ line.hashes <= MaxLevel /\ line.space /\ line.text
    THEN line.hashes
    ELSE 0

MInit ==
    /\ doc \in UNION { [1..n -> LineKinds] : n \in 0..MaxLines }
    /\ pos = 1
    /\ header_stack = <<>>
    /\ nodes = <<>>
    /\ level = [n \in LineIds |-> 0]
    /\ children = [n \in LineIds |-> <<>>]
    /\ mpc = "loop"

\* No file being parsed.
MIdle ==
    /\ doc = <<>>
    /\ pos = 1
    /\ header_stack = <<>>
    /\ nodes = <<>>
    /\ level = [n \in LineIds |-> 0]
    /\ children = [n \in LineIds |-> <<>>]
    /\ mpc = "returned"

\* A variant of the test of line 68 that keeps a header of the same level
\* open.
ClosesDeeperOnly(top, new) == top > new

\* Line 68: header_stack[-1]['level'] >= level
Closes(top, new) == top >= new

\* Lines 68-69: the while loop.
RECURSIVE PopClosed(_, _)
PopClosed(stack, new) ==
    IF stack # <<>> /\ Closes(level[stack[Len(stack)]], new)
    THEN PopClosed(SubSeq(stack, 1, Len(stack) - 1), new)
    ELSE stack

\* One iteration of the loop of line 60 on a line that matches: lines
\* 64-85.
ParseHeader ==
    /\ mpc = "loop"
    /\ pos <= Len(doc)
    /\ HeaderLevel(doc[pos]) > 0
    /\ LET new == HeaderLevel(doc[pos])
           stack == PopClosed(header_stack, new)
       IN  /\ level' = [level EXCEPT ![pos] = new]
           /\ IF stack # <<>>
              THEN /\ children' = [children EXCEPT ![stack[Len(stack)]] =
                                       Append(@, pos)]
                   /\ nodes' = nodes
              ELSE /\ nodes' = Append(nodes, pos)
                   /\ children' = children
           /\ header_stack' = Append(stack, pos)
    /\ pos' = pos + 1
    /\ UNCHANGED <<doc, mpc>>

\* One iteration on a line that does not match (line 63).
SkipLine ==
    /\ mpc = "loop"
    /\ pos <= Len(doc)
    /\ HeaderLevel(doc[pos]) = 0
    /\ pos' = pos + 1
    /\ UNCHANGED <<doc, header_stack, nodes, level, children, mpc>>

\* Line 87.
ReturnNodes ==
    /\ mpc = "loop"
    /\ pos > Len(doc)
    /\ mpc' = "returned"
    /\ UNCHANGED <<doc, pos, header_stack, nodes, level, children>>

MdNext ==
    \/ ParseHeader /\ UNCHANGED <<bvars, pvars, fvars, svars, jvars, hvars, uvars>>
    \/ SkipLine /\ UNCHANGED <<bvars, pvars, fvars, svars, jvars, hvars, uvars>>
    \/ ReturnNodes /\ UNCHANGED <<bvars, pvars, fvars, svars, jvars, hvars, uvars>>

\* ------------------------------------------------------------------------
\* FileParser.parse and the tree of a JSON or YAML document
\* (file_parser.py lines 14-36 and 89-181)
\* ------------------------------------------------------------------------

\* The key argument of _build_json_tree: None, a str, an int (a YAML
\* mapping may have such keys), or the f'[{i}]' of an array element.
NoKey == [t |-> "none", s |-> <<>>, n |-> 0]
StrKey(str) == [t |-> "str", s |-> str, n |-> 0]
IntKey(i) == [t |-> "int", s |-> <<>>, n |-> i]
IndexKey(i) == [t |-> "index", s |-> <<>>, n |-> i]

\* The truth value Python gives a key in `if key`.
Truthy(key) ==
    CASE key.t = "str" -> key.s # <<>>
      [] key.t = "int" -> key.n # 0
      [] key.t = "index" -> TRUE
      [] OTHER -> FALSE

\* The keys of a JSON object and of a YAML mapping.
JsonKeys == {StrKey(<<"a">>), StrKey(<<>>)}
YamlKeys == JsonKeys \cup {IntKey(0), NoKey}

\* Decoded values: t is the Python type, items the entries of a dict (key
\* and value) or the elements of a list, repr the str() of a scalar.
Scalars ==
    { [t |-> "NoneType", items |-> <<>>, repr |-> "None"],
      [t |-> "bool", items |-> <<>>, repr |-> "True"],
      [t |-> "int", items |-> <<>>, repr |-> "7"],
      [t |-> "str", items |-> <<>>, repr |-> "x"] }

SeqsUpTo(S, n) == UNION { [1..k -> S] : k \in 0..n }

DictsOver(K, V, n) ==
    { [t |-> "dict", items |-> e, repr |-> ""] :
        e \in { e \in SeqsUpTo([k : K, v : V], n) :
                  \A i, j \in 1..Len(e) : i # j => e[i].k # e[j].k } }

ListsOver(V, n) ==
    { [t |-> "list", items |-> e, repr |-> ""] : e \in SeqsUpTo(V, n) }

Inner(K) ==
    Scalars \cup DictsOver(K, Scalars, MaxInner)
            \cup ListsOver(Scalars, MaxInner)

Documents(K) ==
    Scalars \cup DictsOver(K, Inner(K), MaxEntries)
            \cup ListsOver(Inner(K), MaxEntries)

\* The type tags of lines 137, 155 and 167-175.
TypeTag(name, n) == [name |-> name, n |-> n]

\* Lines 167-175.
TypeName(data) ==
    IF data.t = "NoneType" THEN "null"
    ELSE IF data.t = "bool" THEN "boolean"
    ELSE IF data.t \in {"int", "float"} THEN "number"
    ELSE "string"

\* The labels of lines 136, 154, 160 and 178, and of lines 100-102 and
\* 115-117.
KeyLabel(key) == [src |-> "key", key |-> key, text |-> ""]
TextLabel(text) == [src |-> "text", key |-> NoKey, text |-> text]

\* Lines 130, 152 and 178: `if key`.
HasKey(key) == Truthy(key)

\* _build_json_tree, lines 119-181. BuildEntries is the loop of lines
\* 133-134 and 143-144 from entry i on, BuildItems the loop of lines
\* 149-150.
RECURSIVE BuildJsonTree(_, _)
RECURSIVE BuildEntries(_, _)
RECURSIVE BuildItems(_, _)

BuildEntries(items, i) ==
    IF i > Len(items) THEN <<>>
    ELSE BuildJsonTree(items[i].v, items[i].k) \o BuildEntries(items, i + 1)

BuildItems(items, i) ==
    IF i > Len(items) THEN <<>>
    ELSE BuildJsonTree(items[i], IndexKey(i - 1)) \o BuildItems(items, i + 1)

BuildJsonTree(data, key) ==
    IF data.t = "dict"
    THEN IF HasKey(key)
         THEN << [label |-> KeyLabel(key), type |-> TypeTag("object", 0),
                  children |-> BuildEntries(data.items, 1)] >>
         ELSE BuildEntries(data.items, 1)
    ELSE IF data.t = "list"
    THEN << [label |-> IF HasKey(key) THEN KeyLabel(key)
                       ELSE TextLabel("Root Array"),
             type |-> TypeTag("array", Len(data.items)),
             children |-> BuildItems(data.items, 1)] >>
    ELSE << [label |-> IF HasKey(key) THEN KeyLabel(key)
                       ELSE TextLabel(data.repr),
             type |-> TypeTag(TypeName(data), 0),
             children |-> <<>>] >>

\* The node of lines 100, 102, 115 and 117: a label and no type.
ErrorNode(text) ==
    [label |-> TextLabel(text), type |-> TypeTag("none", 0),
     children |-> <<>>]

\* What json.loads and yaml.safe_load make of the content: the decoded
\* value; the decoder's own error (JSONDecodeError, YAMLError) on malformed
\* content; and, from json.loads, RecursionError on content whose brackets
\* nest deeper than the interpreter's recursion limit, closed or not.
Decode(c) ==
    IF c.deep THEN [outcome |-> "other_error", data |-> c.data]
    ELSE IF ~c.wellformed THEN [outcome |-> "decode_error", data |-> c.data]
    ELSE [outcome |-> "ok", data |-> c.data]

\* _parse_json, lines 95-102.
ParseJson(c) ==
    LET d == Decode(c)
    IN  IF d.outcome = "ok" THEN BuildJsonTree(d.data, NoKey)
        ELSE IF d.outcome = "decode_error"
        THEN <<ErrorNode("JSON Parse Error")>>
        ELSE <<ErrorNode("Error")>>

\* _parse_yaml, lines 110-117.
ParseYaml(c) ==
    LET d == Decode(c)
    IN  IF d.outcome = "ok" THEN BuildJsonTree(d.data, NoKey)
        ELSE IF d.outcome = "decode_error"
        THEN <<ErrorNode("YAML Parse Error")>>
        ELSE <<ErrorNode("Error")>>

\* Line 21: self.file_path.suffix.lower()
Extension == Lower(Suffix(fname))

\* The names of the files parsed.
FileNames ==
    { <<"a",".","m","d">>, <<"B",".","M","D">>,
      <<"a",".","j","s","o","n">>, <<"a",".","y","m","l">>,
      <<"a",".","y","a","m","l">>, <<"b",".","t","x","t">>,
      <<"v","e","n","v">> }

NoContent == [wellformed |-> TRUE, deep |-> FALSE,
             data |-> [t |-> "NoneType", items |-> <<>>, repr |-> "None"]]

\* The contents a file of the given extension may have.
Contents(ext) ==
    LET K == IF ext = <<".","j","s","o","n">> THEN JsonKeys ELSE YamlKeys
    IN  IF ext \in {<<".","j","s","o","n">>, <<".","y","m","l">>,
                    <<".","y","a","m","l">>}
        THEN { [wellformed |-> TRUE, deep |-> FALSE, data |-> d] :
                 d \in Documents(K) }
             \cup { [NoContent EXCEPT !.wellformed = w, !.deep = TRUE] :
                      w \in IF ext = <<".","j","s","o","n">> THEN BOOLEAN
                            ELSE {} }
             \cup { [NoContent EXCEPT !.wellformed = FALSE] }
        ELSE {NoContent}

\* The lines a markdown file may have.
MdContents(ext) ==
    IF ext = <<".","m","d">> THEN UNION { [1..n -> LineKinds] : n \in 0..1 }
    ELSE {<<>>}

JInit ==
    /\ fname \in FileNames
    /\ content \in Contents(Extension)
    /\ tree = <<>>
    /\ jpc = "start"
    /\ doc \in MdContents(Extension)
    /\ pos = 1
    /\ header_stack = <<>>
    /\ nodes = <<>>
    /\ level = [n \in LineIds |-> 0]
    /\ children = [n \in LineIds |-> <<>>]
    /\ mpc = "returned"

\* No file being parsed.
JIdle ==
    /\ fname = <<>>
    /\ content = NoContent
    /\ tree = <<>>
    /\ jpc = "returned"

\* parse(), lines 29-30: the markdown branch enters _parse_markdown.
ParseMarkdown ==
    /\ jpc = "start"
    /\ Extension = <<".","m","d">>
    /\ jpc' = "markdown"
    /\ mpc' = "loop"
    /\ UNCHANGED <<fname, content, tree, doc, pos, header_stack, nodes,
                   level, children>>

\* parse(), lines 31-36: the other branches.
ParseOther ==
    /\ jpc = "start"
    /\ Extension # <<".","m","d">>
    /\ tree' = IF Extension = <<".","j","s","o","n">> THEN ParseJson(content)
               ELSE IF Extension \in {<<".","y","m","l">>,
                                      <<".","y","a","m","l">>}
               THEN ParseYaml(content)
               ELSE <<>>
    /\ jpc' = "returned"
    /\ UNCHANGED <<fname, content, mvars>>

ParseNext ==
    \/ ParseMarkdown /\ UNCHANGED <<bvars, pvars, fvars, svars, hvars, uvars>>
    \/ ParseOther /\ UNCHANGED <<bvars, pvars, fvars, svars, hvars, uvars>>
    \/ ParseHeader /\ UNCHANGED <<bvars, pvars, fvars, svars, jvars, hvars, uvars>>
    \/ SkipLine /\ UNCHANGED <<bvars, pvars, fvars, svars, jvars, hvars, uvars>>
    \/ ReturnNodes /\ UNCHANGED <<bvars, pvars, fvars, svars, jvars, hvars, uvars>>

\* ------------------------------------------------------------------------
\* FolderEventHandler.on_any_event (watcher.py lines 23-36) with the
\* callback add_project gives it (server.py lines 108-109)
\* ------------------------------------------------------------------------

\* The names of the files and folders events are about.
EventNames == FileNames \cup { <<".","m","d">>, <<"D","o","c","s">> }

FsEvents == [is_directory : BOOLEAN, name : EventNames]

NoFsEvent == [is_directory |-> FALSE, name |-> <<>>]

\* event.src_path: the name below the watched folder.
SrcPath(e) == <<"/">> \o e.name

\* str.endswith(suffix)
EndsWith(str, suffix) ==
    /\ Len(str) >= Len(suffix)
    /\ SubSeq(str, Len(str) - Len(suffix) + 1, Len(str)) = suffix

\* watcher.py line 33: the tuple given to endswith.
WatchedSuffixes ==
    { <<".","m","d">>, <<".","j","s","o","n">>, <<".","y","m","l">>,
      <<".","y","a","m","l">> }

\* watcher.py lines 29-36: whether on_any_event calls the callback.
Forwards(e) ==
    /\ ~e.is_directory
    /\ \E suffix \in WatchedSuffixes : EndsWith(SrcPath(e), suffix)

HIdle ==
    /\ ev = NoFsEvent
    /\ called = FALSE

\* ------------------------------------------------------------------------
\* Specifications of the broadcaster
\* ------------------------------------------------------------------------

Init == BInit /\ PInit /\ FInit /\ SIdle /\ MIdle /\ JIdle /\ HIdle /\ UIdle

\* The server with any directory tree under the project's path.
ScanInit == BInit /\ PInit /\ FInit /\ SInit /\ MIdle /\ JIdle /\ HIdle /\ UIdle

\* The parser given any markdown file.
MdInit == BInit /\ PInit /\ FInit /\ SIdle /\ MInit /\ JIdle /\ HIdle /\ UIdle

\* A FileParser made for any file.
ParseInit == BInit /\ PInit /\ FInit /\ SIdle /\ JInit /\ HIdle /\ UIdle

\* Watcher threads and client-serving threads, freely interleaved.
Next ==
    \/ \E w \in WThreads : BeginBroadcast(w) /\ UNCHANGED <<snap, pvars, fvars, svars, mvars, jvars, hvars, uvars>>
    \/ \E w \in WThreads : IterNext(w) /\ UNCHANGED <<snap, pvars, fvars, svars, mvars, jvars, hvars, uvars>>
    \/ \E w \in WThreads : PutStep(w) /\ UNCHANGED <<snap, pvars, fvars, svars, mvars, jvars, hvars, uvars>>
    \/ \E w \in WThreads : RemoveDead(w) /\ UNCHANGED <<snap, pvars, fvars, svars, mvars, jvars, hvars, uvars>>
    \/ \E w \in WThreads : Return(w) /\ UNCHANGED <<snap, pvars, fvars, svars, mvars, jvars, hvars, uvars>>
    \/ \E c \in Clients : Subscribe(c) /\ UNCHANGED <<snap, pvars, fvars, svars, mvars, jvars, hvars, uvars>>
    \/ \E c \in Clients : GetMessage(c) /\ UNCHANGED <<snap, pvars, fvars, svars, mvars, jvars, hvars, uvars>>
    \/ \E c \in Clients : Expire(c) /\ UNCHANGED <<snap, pvars, fvars, svars, mvars, jvars, hvars, uvars>>
    \/ \E c \in Clients : Resume(c) /\ UNCHANGED <<snap, pvars, fvars, svars, mvars, jvars, hvars, uvars>>
    \/ \E c \in Clients : CloseCheck(c) /\ UNCHANGED <<snap, pvars, fvars, svars, mvars, jvars, hvars, uvars>>
    \/ \E c \in Clients : CloseRemove(c) /\ UNCHANGED <<snap, pvars, fvars, svars, mvars, jvars, hvars, uvars>>

Spec == Init /\ [][Next]_vars

\* One broadcast call at a time, run to its end with no other thread
\* touching the registry meanwhile.
Caller == CHOOSE w \in WThreads : TRUE
NoCall == \A v \in WThreads : bc[v].pc = "idle"

SeqNext ==
    \/ BeginBroadcast(Caller) /\ snap' = [reg |-> change_queues, size |-> qsize]
       /\ UNCHANGED <<pvars, fvars, svars, mvars, jvars, hvars, uvars>>
    \/ IterNext(Caller) /\ UNCHANGED <<snap, pvars, fvars, svars, mvars, jvars, hvars, uvars>>
    \/ PutStep(Caller) /\ UNCHANGED <<snap, pvars, fvars, svars, mvars, jvars, hvars, uvars>>
    \/ RemoveDead(Caller) /\ UNCHANGED <<snap, pvars, fvars, svars, mvars, jvars, hvars, uvars>>
    \/ Return(Caller) /\ snap' = NoSnap /\ UNCHANGED <<pvars, fvars, svars, mvars, jvars, hvars, uvars>>
    \/ \E c \in Clients : NoCall /\ Subscribe(c) /\ UNCHANGED <<snap, pvars, fvars, svars, mvars, jvars, hvars, uvars>>
    \/ \E c \in Clients : NoCall /\ GetMessage(c) /\ UNCHANGED <<snap, pvars, fvars, svars, mvars, jvars, hvars, uvars>>
    \/ \E c \in Clients : NoCall /\ Expire(c) /\ UNCHANGED <<snap, pvars, fvars, svars, mvars, jvars, hvars, uvars>>
    \/ \E c \in Clients : NoCall /\ Resume(c) /\ UNCHANGED <<snap, pvars, fvars, svars, mvars, jvars, hvars, uvars>>
    \/ \E c \in Clients : NoCall /\ CloseCheck(c) /\ UNCHANGED <<snap, pvars, fvars, svars, mvars, jvars, hvars, uvars>>
    \/ \E c \in Clients : NoCall /\ CloseRemove(c) /\ UNCHANGED <<snap, pvars, fvars, svars, mvars, jvars, hvars, uvars>>

SeqSpec == Init /\ [][SeqNext]_vars

\* The event streams with time: as above (a broadcast call is short beside
\* a unit of time), with the timeout of q.get driven by the clock.
StreamNext ==
    \/ BeginBroadcast(Caller) /\ UNCHANGED <<snap, pvars, fvars, svars, mvars, jvars, hvars, uvars>>
    \/ IterNext(Caller) /\ UNCHANGED <<snap, pvars, fvars, svars, mvars, jvars, hvars, uvars>>
    \/ PutStep(Caller) /\ UNCHANGED <<snap, pvars, fvars, svars, mvars, jvars, hvars, uvars>>
    \/ RemoveDead(Caller) /\ UNCHANGED <<snap, pvars, fvars, svars, mvars, jvars, hvars, uvars>>
    \/ Return(Caller) /\ UNCHANGED <<snap, pvars, fvars, svars, mvars, jvars, hvars, uvars>>
    \/ \E c \in Clients : NoCall /\ Subscribe(c) /\ UNCHANGED <<snap, pvars, fvars, svars, mvars, jvars, hvars, uvars>>
    \/ \E c \in Clients : NoCall /\ GetMessage(c) /\ UNCHANGED <<snap, pvars, fvars, svars, mvars, jvars, hvars, uvars>>
    \/ \E c \in Clients : NoCall /\ Resume(c) /\ UNCHANGED <<snap, pvars, fvars, svars, mvars, jvars, hvars, uvars>>
    \/ \E c \in Clients : NoCall /\ CloseCheck(c) /\ UNCHANGED <<snap, pvars, fvars, svars, mvars, jvars, hvars, uvars>>
    \/ \E c \in Clients : NoCall /\ CloseRemove(c) /\ UNCHANGED <<snap, pvars, fvars, svars, mvars, jvars, hvars, uvars>>
    \/ NoCall /\ Tick /\ UNCHANGED <<snap, pvars, fvars, svars, mvars, jvars, hvars, uvars>>

StreamSpec == Init /\ [][StreamNext]_vars

\* The project requests and the observer threads, freely interleaved.
ProjSpec == Init /\ [][ProjNext]_vars

\* Browse requests on any directory tree.
ScanSpec == ScanInit /\ [][ScanNext]_vars

\* One _parse_markdown call on any file.
MdSpec == MdInit /\ [][MdNext]_vars

\* One parse() call on any file.
ParseSpec == ParseInit /\ [][ParseNext]_vars

\* The observer thread gives the handler event e: on_any_event, and within
\* it on_change entering broadcast_change when the event is forwarded.
OnAnyEvent(e) ==
    /\ bc[Caller].pc = "idle"
    /\ ev' = e
    /\ called' = Forwards(e)
    /\ IF Forwards(e)
       THEN BeginBroadcast(Caller) /\ UNCHANGED snap
       ELSE UNCHANGED bvars

HandlerNext ==
    \/ \E e \in FsEvents :
          OnAnyEvent(e) /\ UNCHANGED <<pvars, fvars, svars, mvars, jvars, uvars>>
    \/ IterNext(Caller) /\ UNCHANGED <<snap, pvars, fvars, svars, mvars, jvars, hvars, uvars>>
    \/ PutStep(Caller) /\ UNCHANGED <<snap, pvars, fvars, svars, mvars, jvars, hvars, uvars>>
    \/ RemoveDead(Caller) /\ UNCHANGED <<snap, pvars, fvars, svars, mvars, jvars, hvars, uvars>>
    \/ Return(Caller) /\ UNCHANGED <<snap, pvars, fvars, svars, mvars, jvars, hvars, uvars>>
    \/ \E c \in Clients : NoCall /\ Subscribe(c) /\ UNCHANGED <<snap, pvars, fvars, svars, mvars, jvars, hvars, uvars>>
    \/ \E c \in Clients : NoCall /\ GetMessage(c) /\ UNCHANGED <<snap, pvars, fvars, svars, mvars, jvars, hvars, uvars>>
    \/ \E c \in Clients : NoCall /\ Resume(c) /\ UNCHANGED <<snap, pvars, fvars, svars, mvars, jvars, hvars, uvars>>

\* The handler of one watcher given any events, its callback broadcasting
\* to the streams open at the time.
HandlerSpec == Init /\ [][HandlerNext]_vars

\* The project requests one at a time, with the observer threads.
UpdateSpec == Init /\ [][UpdateNext]_vars

\* One FolderWatcher under any sequence of start and stop calls.
WatcherSpec == Init /\ [][WatcherNext]_vars


\* ------------------------------------------------------------------------
\* Properties of the broadcaster
\* ------------------------------------------------------------------------

\* The registry a call leaves behind when it began with registry reg and
\* queue sizes size: the queues that were not full, in their order.
Survivors(reg, size) == SelectSeq(reg, LAMBDA c : size[c] < MAXSIZE)

\* C1: when a broadcast call that ran alone returns, every queue that was
\* registered and not full when it began holds one message more and is still
\* registered, every queue that was full then is unchanged and is no longer
\* in the registry, no queue outside the registry was pushed to (so a later
\* broadcast reaches only the queues that remained), and the call did not
\* raise.
C1_BroadcastDeliversAndPrunes ==
    \A w \in WThreads :
        /\ bc[w].pc # "raised"
        /\ bc[w].pc = "done" =>
              /\ \A c \in Range(snap.reg) :
                    IF snap.size[c] < MAXSIZE
                    THEN qsize[c] = snap.size[c] + 1 /\ Contains(change_queues, c)
                    ELSE qsize[c] = snap.size[c] /\ ~Contains(change_queues, c)
              /\ \A c \in Clients \ Range(snap.reg) : qsize[c] = snap.size[c]
              /\ change_queues = Survivors(snap.reg, snap.size)

\* A call returns having found one queue full and another not, while a
\* queue that an earlier call removed sits outside the registry, still full.
C1_Witness ==
    \E w \in WThreads :
        /\ bc[w].pc = "done"
        /\ \E c, d \in Range(snap.reg) :
              snap.size[c] = MAXSIZE /\ snap.size[d] < MAXSIZE

\* C2: under every interleaving of broadcasts with subscribe/unsubscribe, no
\* broadcast call fails and none finishes its loop over the registry having
\* skipped a queue that stayed registered during the whole call.
C2_RegistrySynchronized ==
    \A w \in WThreads :
        /\ bc[w].pc # "raised"
        /\ bc[w].pc \in {"remove", "done"} => bc[w].owed = {}

\* C6: the registry never holds the queue of a closed stream, and no
\* broadcast call that began after a stream closed pushes to its queue.
C6_ClosedStreamUnregistered ==
    /\ \A c \in ClosedClients : ~Contains(change_queues, c)
    /\ \A w \in WThreads : bc[w].pc = "put" => bc[w].q \notin bc[w].closed

\* A broadcast call that began after a stream closed is pushing to another
\* queue, and the closed stream's queue had been removed by a broadcast
\* before the stream closed (it is still full).
C6_Witness ==
    \E w \in WThreads : \E c \in bc[w].closed :
        /\ bc[w].pc = "put"
        /\ qsize[c] = MAXSIZE

\* C5: a generator never waits a full timeout window on an empty queue
\* without a frame being sent, and a heartbeat is yielded only by a generator
\* whose q.get timed out on an empty queue.
C5_HeartbeatPerIdleWindow ==
    /\ [](\A c \in Clients : silent[c] < TIMEOUT)
    /\ [][\A c \in Clients :
            (hb'[c] /\ ~hb[c]) =>
                /\ cpc[c] = "waiting"
                /\ qsize[c] = 0
                /\ silent[c] + 1 = TIMEOUT]_vars

\* A heartbeat has been yielded to a subscriber while another one holds
\* queued messages.
C5_Witness ==
    \E c, d \in Clients : hb[c] /\ cpc[c] = "yielded" /\ qsize[d] > 0


\* ------------------------------------------------------------------------
\* Properties of the watchers and the projects
\* ------------------------------------------------------------------------

\* C3: no ChangeEvent is broadcast with the id of a project that is not in
\* the project registry at that moment.
C3_NoEventForRemovedProject == lastEvent.registered

\* C4: is_running() is true exactly when the last call that changed the
\* observer was a start; start() on a running watcher changes nothing (the
\* observer is not scheduled or started again), and stop() on an idle
\* watcher changes nothing and does not raise.
C4_WatcherStateMachine ==
    /\ [](IsRunning(fwo) <=> lastEff = "start")
    /\ [][(ops' # ops /\ ops'[Len(ops')] = "start" /\ IsRunning(fwo))
             => (fwo' = fwo /\ ~raised')]_vars
    /\ [][(ops' # ops /\ ops'[Len(ops')] = "stop" /\ ~IsRunning(fwo))
             => (fwo' = fwo /\ ~raised')]_vars

\* A watcher that was started twice and then stopped twice.
C4_Witness ==
    /\ ops = <<"start", "start", "stop", "stop">>
    /\ ~IsRunning(fwo)
    /\ fwo.scheduled = 1


\* ------------------------------------------------------------------------
\* Properties of the watcher map
\* ------------------------------------------------------------------------

\* C15: once the add_project, update_project and remove_project requests
\* made are answered, every watcher in the map belongs to a registered
\* project and watches that project's current path; and after an update
\* request that gave a registered project a path, that path is the
\* project's current one and the one its watcher watches.
C15_WatchersFollowRegistry ==
    Quiet =>
        /\ \A p \in watchers : projects[p] # 0 /\ fw[p].path = projects[p]
        /\ (upd.known /\ projects[upd.pid] # 0) =>
              /\ projects[upd.pid] = upd.path
              /\ fw[upd.pid].path = upd.path

\* ------------------------------------------------------------------------
\* Properties of the event handler
\* ------------------------------------------------------------------------

\* The event is one on a file whose extension (Path.suffix, as the rest of
\* the program takes it) is watched.
WatchedFileEvent(e) == ~e.is_directory /\ Suffix(e.name) \in WatchedSuffixes

\* C14: the callback is called for an event exactly when the event is not
\* a directory event and its path's extension is .md, .json, .yml or .yaml;
\* a subscriber's queue grows only for such an event.
C14_OnlyWatchedFilesForwarded ==
    /\ [](ev # NoFsEvent => (called <=> WatchedFileEvent(ev)))
    /\ [][(\E c \in Clients : qsize'[c] > qsize[c]) => WatchedFileEvent(ev)]_vars

\* ------------------------------------------------------------------------
\* Properties of the directory scanner
\* ------------------------------------------------------------------------

\* A folder name that must not be listed: dot-prefixed or in the exclusion
\* set.
HiddenName(name) == StartsWithDot(name) \/ name \in excluded_folders

\* Every listing of the last answer.
Listings ==
    {resp.items} \cup {resp.cache[d] : d \in DOMAIN resp.cache}

\* The folders a recursive scan has to visit: the root, and the folders
\* that are not hidden inside a visited folder that could be opened.
RECURSIVE Visited(_)
Visited(d) ==
    IF d = 0 THEN TRUE
    ELSE /\ IsDir(d)
         /\ ~HiddenName(ent[d].name)
         /\ parent[d] \notin unreadable
         /\ Visited(parent[d])

\* C7: in both modes no listing holds a folder entry whose name starts with
\* a dot or is in the exclusion set, and no such folder is a key of the
\* recursive cache.
C7_NoHiddenOrExcludedFolder ==
    /\ \A l \in Listings : \A k \in 1..Len(l) :
          l[k].type = "folder" => ~HiddenName(l[k].name)
    /\ \A d \in DOMAIN resp.cache : d # 0 => ~HiddenName(ent[d].name)

\* C8: after a recursive scan, a folder below the root that could not be
\* opened has no key in the cache, and every visited folder that could be
\* opened has one.
C8_UnopenableFolderAbsent ==
    resp.mode = "all" =>
        \A d \in Dirs \ {0} :
            /\ (Visited(d) /\ d \notin unreadable) => d \in DOMAIN resp.cache
            /\ d \in unreadable => d \notin DOMAIN resp.cache

\* C9: a recursive scan whose root cannot be opened is answered with an
\* error, not with a cache.
C9_RootFailureIsError ==
    (resp.mode = "all" /\ 0 \in unreadable) => resp.status = "error"


\* C13: in both modes every listing holds its folder entries first, in
\* ascending order of their lower-cased names, and its file entries after
\* them, in descending order of creation time.
C13_ListingOrder ==
    \A l \in Listings : \A i, j \in 1..Len(l) :
        i < j =>
            /\ l[i].type = "file" => l[j].type = "file"
            /\ (l[i].type = "folder" /\ l[j].type = "folder") =>
                  ~StrLess(Lower(l[j].name), Lower(l[i].name))
            /\ (l[i].type = "file" /\ l[j].type = "file") =>
                  l[i].created >= l[j].created

\* A recursive scan listed a root that iterdir() gave as an older file, a
\* newer file and a folder, in that order.
C13_Witness ==
    /\ resp.mode = "all"
    /\ Len(resp.items) = 3
    /\ resp.items[1].type = "folder" /\ resp.items[1].node = 3
    /\ resp.items[2].type = "file" /\ resp.items[2].node = 2
    /\ resp.items[3].type = "file" /\ resp.items[3].node = 1
    /\ resp.items[2].created > resp.items[3].created

\* ------------------------------------------------------------------------
\* Properties of the markdown parser
\* ------------------------------------------------------------------------

StrictlyIncreasing(seq) ==
    \A k \in 1..(Len(seq) - 1) : seq[k] < seq[k + 1]

\* The headers among the lines handled so far.
Parsed == {n \in 1..(pos - 1) : HeaderLevel(doc[n]) > 0}

\* The headers before line n that are shallower than line n.
Shallower(n) ==
    {k \in 1..(n - 1) :
        HeaderLevel(doc[k]) > 0 /\ HeaderLevel(doc[k]) < HeaderLevel(doc[n])}

\* The nearest of them.
Nearest(n) == CHOOSE k \in Shallower(n) : \A m \in Shallower(n) : m <= k

\* C10: on a header of level L the parser pops every open header of level
\* >= L, attaches the new node below the remaining stack top, or as a new
\* root when the stack is empty, and pushes it. Hence the levels of the open
\* header stack strictly increase from bottom to top, the children of a node
\* are deeper than the node, roots and children are in document order, and
\* every header hangs below the nearest shallower header before it.
C10_HeaderStack ==
    /\ [](/\ StrictlyIncreasing([k \in 1..Len(header_stack) |->
                                     level[header_stack[k]]])
          /\ \A n \in LineIds : \A k \in 1..Len(children[n]) :
                level[children[n][k]] > level[n]
          /\ StrictlyIncreasing(nodes)
          /\ \A n \in LineIds : StrictlyIncreasing(children[n])
          /\ \A n \in LineIds : level[n] > 0 <=> n \in Parsed
          /\ \A n \in Parsed :
                /\ level[n] = HeaderLevel(doc[n])
                /\ IF Shallower(n) = {}
                   THEN Contains(nodes, n)
                   ELSE Contains(children[Nearest(n)], n)
          /\ Range(nodes) \cup UNION {Range(children[n]) : n \in LineIds}
                = Parsed)
    /\ [][(pos' = pos + 1 /\ HeaderLevel(doc[pos]) > 0) =>
            LET L == HeaderLevel(doc[pos])
                rest == SelectSeq(header_stack, LAMBDA n : level[n] < L)
            IN  /\ header_stack' = Append(rest, pos)
                /\ IF rest = <<>>
                   THEN nodes' = Append(nodes, pos) /\ children' = children
                   ELSE /\ nodes' = nodes
                        /\ children' = [children EXCEPT ![rest[Len(rest)]] =
                                            Append(@, pos)]
         ]_vars

\* A header closed two open headers and went below the one that remained.
C10_Witness ==
    /\ mpc = "returned"
    /\ Len(doc) = 4
    /\ [k \in 1..4 |-> HeaderLevel(doc[k])] = <<1, 2, 3, 2>>
    /\ header_stack = <<1, 4>>
    /\ nodes = <<1>>
    /\ children[1] = <<2, 4>>
    /\ children[2] = <<3>>


\* ------------------------------------------------------------------------
\* Properties of parse() and of the JSON/YAML tree
\* ------------------------------------------------------------------------

JsonExt == <<".","j","s","o","n">>
YamlExts == {<<".","y","m","l">>, <<".","y","a","m","l">>}

\* The tree in which every value that has a key, whatever the key, is
\* labelled with it, and only the root object is flattened.
RECURSIVE Labelled(_, _, _)
RECURSIVE LabelledEntries(_, _)
RECURSIVE LabelledItems(_, _)

LabelledEntries(items, i) ==
    IF i > Len(items) THEN <<>>
    ELSE Labelled(items[i].v, TRUE, items[i].k) \o LabelledEntries(items, i + 1)

LabelledItems(items, i) ==
    IF i > Len(items) THEN <<>>
    ELSE Labelled(items[i], TRUE, IndexKey(i - 1)) \o LabelledItems(items, i + 1)

Labelled(data, keyed, key) ==
    IF data.t = "dict"
    THEN IF keyed
         THEN << [label |-> KeyLabel(key), type |-> TypeTag("object", 0),
                  children |-> LabelledEntries(data.items, 1)] >>
         ELSE LabelledEntries(data.items, 1)
    ELSE IF data.t = "list"
    THEN << [label |-> IF keyed THEN KeyLabel(key)
                       ELSE TextLabel("Root Array"),
             type |-> TypeTag("array", Len(data.items)),
             children |-> LabelledItems(data.items, 1)] >>
    ELSE << [label |-> IF keyed THEN KeyLabel(key) ELSE TextLabel(data.repr),
             type |-> TypeTag(TypeName(data), 0),
             children |-> <<>>] >>

\* C11: the tree of a decoded JSON or YAML document labels every value that
\* has a key with that key, an empty-string or falsy key included: a keyed
\* object is one "object" node, a keyed array one "array[N]" node, a keyed
\* scalar one node, each labelled with the key; only the keyless root
\* object is flattened.
C11_KeyedNodesLabelled ==
    ( /\ jpc = "returned"
      /\ Extension \in {JsonExt} \cup YamlExts
      /\ Decode(content).outcome = "ok" )
        => tree = Labelled(content.data, FALSE, NoKey)

\* C12: parse() of a .json, .yml or .yaml file with malformed content
\* returns exactly one node without children whose label is the format's
\* parse error, and parse() of a file with an unsupported extension returns
\* the empty list.
C12_MalformedIsParseError ==
    (jpc = "returned" /\ fname # <<>>) =>
        /\ (Extension = JsonExt /\ ~content.wellformed) =>
              tree = <<ErrorNode("JSON Parse Error")>>
        /\ (Extension \in YamlExts /\ ~content.wellformed) =>
              tree = <<ErrorNode("YAML Parse Error")>>
        /\ Extension \notin {JsonExt, <<".","m","d">>} \cup YamlExts =>
              tree = <<>>

=============================================================================
